---- MODULE Spec2Model ----
(***************************************************************************)
(* Model of alex45101/Video-Caption, src/main.py.                          *)
(*                                                                         *)
(*   Spec         combine_words: the loop over the word tokens, one        *)
(*                iteration per step, then the trailing emit and return.   *)
(*   SpecCaption  create_caption (one caption line per step, each step     *)
(*                calling create_caption_clip) followed by the chain       *)
(*                flattening and the compositor call of main.              *)
(*   SpecShadow   add_shadow_caption called with a position and an offset. *)
(*                                                                         *)
(* A text is a sequence of one-character strings, so that len(), += and    *)
(* str.strip() are computed on it.  Times are integers (ticks).            *)
(***************************************************************************)
EXTENDS Integers, Sequences, FiniteSets, TLC

VARIABLES
    pc,                \* position of the running function
    \* ---- combine_words
    data,              \* the word tokens: records [word, start, end]
    max_chars, max_duration, max_gap,
    i,                 \* index (0-based, as enumerate) of the next token
    current_line,      \* the accumulator dict
    subtitle_lines,    \* the list being returned
    \* ---- create_caption / main
    caption_data,      \* the subtitle lines loaded from JSON_MODIFIED_OUTPUT
    Shadow,            \* subtitle_data['Shadow']
    video_size,        \* video_clip.size
    n,                 \* number of captions create_caption has consumed
    caption_clip,      \* what the last create_caption_clip call returned
    final_caption_clips,
    composite,         \* the list handed to CompositeVideoClip
    \* ---- add_shadow_caption
    position, offset,  \* its arguments
    shadow_pos         \* the position it sets on the shadow clip

vars == <<pc, data, max_chars, max_duration, max_gap, i, current_line,
          subtitle_lines, caption_data, Shadow, video_size, n, caption_clip,
          final_caption_clips, composite, position, offset, shadow_pos>>

combineVars == <<data, max_chars, max_duration, max_gap, i, current_line,
                 subtitle_lines>>
captionVars == <<caption_data, Shadow, video_size, n, caption_clip,
                 final_caption_clips, composite>>
shadowVars  == <<position, offset, shadow_pos>>

(***************************************************************************)
(* Bounds of the model.                                                    *)
(***************************************************************************)
\* len(data) <= MaxWords
MaxWords == 3
\* start and end times are in 0..MaxTime
MaxTime == 1
\* max_chars is in 1..MaxCharsBound
MaxCharsBound == 5
\* max_duration is in 1..MaxDurationBound
MaxDurationBound == 1
\* max_gap is in 0..MaxGapBound
MaxGapBound == 0
\* len(caption_data) <= MaxLines
MaxLines == 3
\* numeric caption positions are in 0..MaxPos
MaxPos == 2
\* shadow offsets are in 0..MaxOffset
MaxOffset == 2

(***************************************************************************)
(* Values.                                                                 *)
(***************************************************************************)
\* Python's None, as the start and end of an accumulator with no word yet.
None == -1

\* The characters str.strip() removes.
Whitespace == {" ", "\t", "\n"}

\* The word texts of the tokens: the empty word, a word with a leading blank
\* (as the recogniser writes them) and a word with a trailing blank.
WordTexts == { <<>>, <<" ", "a">>, <<"b", " ">> }

Tokens == { t \in [word : WordTexts, start : 0..MaxTime, end : 0..MaxTime] :
              t.start <= t.end }

RECURSIVE SeqsUpTo(_, _)
SeqsUpTo(S, k) ==
    IF k = 0 THEN { <<>> }
    ELSE LET shorter == SeqsUpTo(S, k - 1)
         IN  shorter \cup { Append(s, x) : s \in { q \in shorter : Len(q) = k - 1 }, x \in S }

\* The tokens come in non-decreasing start order (they may overlap).
InStartOrder(d) == \A k \in 1..(Len(d) - 1) : d[k].start <= d[k + 1].start

(***************************************************************************)
(* combine_words                                                           *)
(***************************************************************************)
RECURSIVE lstrip(_)
lstrip(s) ==
    IF s # <<>> /\ Head(s) \in Whitespace THEN lstrip(Tail(s)) ELSE s

RECURSIVE rstrip(_)
rstrip(s) ==
    IF s # <<>> /\ s[Len(s)] \in Whitespace
    THEN rstrip(SubSeq(s, 1, Len(s) - 1)) ELSE s

\* a faulty strip: the trailing whitespace stays (str.lstrip)
strip_leading_only(s) == lstrip(s)

\* str.strip()
strip(s) == rstrip(lstrip(s))

\* the accumulator of lines 112-118 and 144-150
EmptyLine ==
    [text |-> <<>>, start |-> None, end |-> None, duration |-> 0, words |-> <<>>]

\* line 124
word_duration(word_data) == word_data.end - word_data.start

\* lines 127-129; k is the 0-based index of the token, data[k] is d[k + 1]
gap(d, k) == IF k > 0 THEN d[k + 1].start - d[k].end ELSE 0

\* a faulty duration test: a sum equal to the limit already breaks
max_time_hit_at_limit(cur, word_data, md) ==
    (cur.duration + word_duration(word_data)) >= md

\* lines 132-134
max_time_hit(cur, word_data, md) == (cur.duration + word_duration(word_data)) > md
max_chars_hit(cur, word_data, mc) == (Len(cur.text) + Len(word_data.word)) >= mc
max_gap_hit(g, mg) == g > mg

\* line 136: the accumulator's text is truthy and a constraint is hit
line_break(cur, word_data, g, mc, md, mg) ==
    /\ cur.text # <<>>
    /\ \/ max_time_hit(cur, word_data, md)
       \/ max_chars_hit(cur, word_data, mc)
       \/ max_gap_hit(g, mg)

\* the dict appended at lines 137-142 and 167-172
subtitle_line(cur) ==
    [start |-> cur.start, end |-> cur.end, line |-> strip(cur.text),
     words |-> cur.words]

\* lines 153-163
add_word(cur, word_data) ==
    [text     |-> cur.text \o word_data.word,
     start    |-> IF cur.start = None THEN word_data.start ELSE cur.start,
     end      |-> word_data.end,
     duration |-> cur.duration + word_duration(word_data),
     words    |-> Append(cur.words, [text  |-> word_data.word,
                                      start |-> word_data.start,
                                      end   |-> word_data.end])]

\* the state in which no caption has been built
CaptionIdle ==
    /\ caption_data = <<>>
    /\ Shadow = FALSE
    /\ video_size = <<0, 0>>
    /\ n = 0
    /\ caption_clip = <<>>
    /\ final_caption_clips = <<>>
    /\ composite = <<>>

ShadowIdle ==
    /\ position = <<>>
    /\ offset = <<>>
    /\ shadow_pos = <<>>

CombineIdle ==
    /\ data = <<>>
    /\ max_chars = 1
    /\ max_duration = 1
    /\ max_gap = 0
    /\ i = 0
    /\ current_line = EmptyLine
    /\ subtitle_lines = <<>>

\* combine_words is entered: lines 97-118
Init ==
    /\ pc = "combine_words"
    /\ data \in { d \in SeqsUpTo(Tokens, MaxWords) : InStartOrder(d) }
    /\ max_chars \in 1..MaxCharsBound
    /\ max_duration \in 1..MaxDurationBound
    /\ max_gap \in 0..MaxGapBound
    /\ i = 0
    /\ current_line = EmptyLine
    /\ subtitle_lines = <<>>
    /\ CaptionIdle
    /\ ShadowIdle

\* one iteration of the for loop, lines 120-163
LoopBody ==
    /\ pc = "combine_words"
    /\ i < Len(data)
    /\ LET word_data == data[i + 1]
           g == gap(data, i)
           brk == line_break(current_line, word_data, g, max_chars,
                             max_duration, max_gap)
           cur == IF brk THEN EmptyLine ELSE current_line
       IN  /\ subtitle_lines' =
                IF brk THEN Append(subtitle_lines, subtitle_line(current_line))
                       ELSE subtitle_lines
           /\ current_line' = add_word(cur, word_data)
    /\ i' = i + 1
    /\ UNCHANGED <<pc, data, max_chars, max_duration, max_gap>>
    /\ UNCHANGED captionVars
    /\ UNCHANGED shadowVars

\* the loop is over: lines 165-174
Return ==
    /\ pc = "combine_words"
    /\ i = Len(data)
    /\ subtitle_lines' =
         IF current_line.text # <<>>
         THEN Append(subtitle_lines, subtitle_line(current_line))
         ELSE subtitle_lines
    /\ pc' = "returned"
    /\ UNCHANGED <<data, max_chars, max_duration, max_gap, i, current_line>>
    /\ UNCHANGED captionVars
    /\ UNCHANGED shadowVars

Next == LoopBody \/ Return

Spec == Init /\ [][Next]_vars

(***************************************************************************)
(* add_shadow_caption, create_caption_clip, create_caption, main           *)
(***************************************************************************)
\* A horizontal position is the string 'center' or a number of pixels.
Center == [center |-> TRUE]
Pixels(v) == [center |-> FALSE, px |-> v]

\* line 213
shadow_position(pos, off) ==
    << IF pos[1].center THEN Center ELSE Pixels(pos[1].px + off[2]),
       pos[2] + off[2] >>

\* lines 206-217: the shadow TextClip, placed and blurred
add_shadow_caption(text, start, duration, pos, sigma, off) ==
    [layer |-> "Shadow", text |-> text, color |-> "black", start |-> start,
     duration |-> duration, pos |-> shadow_position(pos, off), blur |-> sigma]

\* lines 241-242; the heights of FrameSizes are multiples of 4, for which
\* video_height * 3/4 is a whole number
default_position(size) == << Center, (size[2] * 3) \div 4 >>

\* line 189: the parameters of add_shadow_caption that have no default
shadow_required_params ==
    {"text", "font", "font_size", "start", "duration", "position", "color",
     "sigma"}

\* lines 258-267: the keywords create_caption_clip passes to it
shadow_call_keywords ==
    {"text", "font", "font_size", "start", "duration", "position", "sigma",
     "offset"}

\* Python binds the call only if every parameter without a default is
\* passed; otherwise the call raises TypeError before the body runs.
shadow_call_binds == shadow_required_params \subseteq shadow_call_keywords

\* lines 257-258: create_caption_clip raises instead of returning
create_caption_clip_raises(shadow) == shadow /\ ~shadow_call_binds

\* lines 237-271, when it returns; caption_position is None at the only
\* call site
create_caption_clip(caption_line_data, size, color, shadow) ==
    LET caption_position == default_position(size)
        full_duration == caption_line_data.end - caption_line_data.start
        main_clip == [layer |-> "Main", text |-> caption_line_data.line,
                      color |-> color, start |-> caption_line_data.start,
                      duration |-> full_duration, pos |-> caption_position,
                      blur |-> 0]
        shadow_clip == add_shadow_caption(caption_line_data.line,
                                          caption_line_data.start, full_duration,
                                          caption_position, 5, <<3, 3>>)
        layers == IF shadow THEN <<shadow_clip>> ELSE <<>>
    IN  Append(layers, main_clip)

\* lines 298-303: clip number idx (1-based here) goes to list number idx
RECURSIVE merge_layers(_, _, _)
merge_layers(final, clips, idx) ==
    IF idx > Len(clips) THEN final
    ELSE IF idx > Len(final)
         THEN merge_layers(Append(final, <<clips[idx]>>), clips, idx + 1)
         ELSE merge_layers([final EXCEPT ![idx] = Append(@, clips[idx])],
                           clips, idx + 1)

\* line 352: list(chain.from_iterable(layers))
RECURSIVE chain_from_iterable(_)
chain_from_iterable(lists) ==
    IF lists = <<>> THEN <<>>
    ELSE Head(lists) \o chain_from_iterable(Tail(lists))

\* line 347: the base video
video_clip == [layer |-> "Video"]

\* The caption lines main loads back: one-word lines as combine_words
\* writes them.
CaptionLines ==
    { subtitle_line(add_word(EmptyLine, t)) : t \in { u \in Tokens : u.word # <<>> } }

\* frame sizes (width, height)
FrameSizes == { <<8, 4>>, <<16, 8>> }

\* main has loaded the subtitle lines and the video: lines 344-351
InitCaption ==
    /\ pc = "create_caption"
    /\ caption_data \in SeqsUpTo(CaptionLines, MaxLines)
    /\ Shadow \in BOOLEAN
    /\ video_size \in FrameSizes
    /\ n = 0
    /\ caption_clip = <<>>
    /\ final_caption_clips = <<>>
    /\ composite = <<>>
    /\ CombineIdle
    /\ ShadowIdle

\* one iteration of create_caption's loop, lines 286-303
CaptionStep ==
    /\ pc = "create_caption"
    /\ n < Len(caption_data)
    /\ ~create_caption_clip_raises(Shadow)
    /\ LET clips == create_caption_clip(caption_data[n + 1], video_size,
                                        "white", Shadow)
       IN  /\ caption_clip' = clips
           /\ final_caption_clips' = merge_layers(final_caption_clips, clips, 1)
    /\ n' = n + 1
    /\ UNCHANGED <<pc, caption_data, Shadow, video_size, composite>>
    /\ UNCHANGED combineVars
    /\ UNCHANGED shadowVars

\* an iteration in which create_caption_clip raises: the TypeError leaves
\* create_caption and main, and the program ends (lines 287-296, 258, 351)
CaptionRaise ==
    /\ pc = "create_caption"
    /\ n < Len(caption_data)
    /\ create_caption_clip_raises(Shadow)
    /\ pc' = "TypeError"
    /\ UNCHANGED captionVars
    /\ UNCHANGED combineVars
    /\ UNCHANGED shadowVars

\* create_caption returns and main flattens and composes: lines 304, 351-355
Compose ==
    /\ pc = "create_caption"
    /\ n = Len(caption_data)
    /\ composite' = <<video_clip>> \o chain_from_iterable(final_caption_clips)
    /\ pc' = "composited"
    /\ UNCHANGED <<caption_data, Shadow, video_size, n, caption_clip,
                   final_caption_clips>>
    /\ UNCHANGED combineVars
    /\ UNCHANGED shadowVars

NextCaption == CaptionStep \/ CaptionRaise \/ Compose

SpecCaption == InitCaption /\ [][NextCaption]_vars

\* add_shadow_caption is called with a main position and an offset
InitShadow ==
    /\ pc = "add_shadow_caption"
    /\ position \in ({Center} \cup {Pixels(x) : x \in 0..MaxPos}) \X (0..MaxPos)
    /\ offset \in (0..MaxOffset) \X (0..MaxOffset)
    /\ shadow_pos = <<>>
    /\ CombineIdle
    /\ CaptionIdle

\* lines 213-215
SetShadowPosition ==
    /\ pc = "add_shadow_caption"
    /\ shadow_pos' = shadow_position(position, offset)
    /\ pc' = "shadow_placed"
    /\ UNCHANGED <<position, offset>>
    /\ UNCHANGED combineVars
    /\ UNCHANGED captionVars

NextShadow == SetShadowPosition

SpecShadow == InitShadow /\ [][NextShadow]_vars

(***************************************************************************)
(* Properties                                                              *)
(***************************************************************************)
RECURSIVE ConcatText(_)
ConcatText(texts) ==
    IF texts = <<>> THEN <<>> ELSE Head(texts) \o ConcatText(Tail(texts))

RECURSIVE AllWords(_)
AllWords(lines) ==
    IF lines = <<>> THEN <<>> ELSE Head(lines).words \o AllWords(Tail(lines))

RECURSIVE SumDurations(_)
SumDurations(words) ==
    IF words = <<>> THEN 0
    ELSE (Head(words).end - Head(words).start) + SumDurations(Tail(words))

LineTexts(lines) == [m \in 1..Len(lines) |-> lines[m].line]
TextsOf(words) == [k \in 1..Len(words) |-> words[k].text]
WordText(words) == ConcatText(TextsOf(words))
InputText(d) == ConcatText([k \in 1..Len(d) |-> d[k].word])
TokenWords(d) ==
    [k \in 1..Len(d) |-> [text |-> d[k].word, start |-> d[k].start, end |-> d[k].end]]

\* the number of words in the lines before line m
WordsBefore(lines, m) == Len(AllWords(SubSeq(lines, 1, m - 1)))

\* r is t without its leading and trailing whitespace
IsTrimOf(r, t) ==
    /\ r # <<>> => r[1] \notin Whitespace /\ r[Len(r)] \notin Whitespace
    /\ \E a, b \in 0..Len(t) :
          /\ a + b <= Len(t)
          /\ \A k \in 1..a : t[k] \in Whitespace
          /\ \A k \in (Len(t) - b + 1)..Len(t) : t[k] \in Whitespace
          /\ r = SubSeq(t, a + 1, Len(t) - b)

\* C1 as stated: the 'line' texts of the returned lines, concatenated in
\* order with no normalization, are the concatenation of the input 'word'
\* texts.
C1_LineTextIsInputText ==
    pc = "returned" => ConcatText(LineTexts(subtitle_lines)) = InputText(data)

\* C1 as amended: each line's 'line' text is the concatenation of that
\* line's word texts with the leading and trailing whitespace removed, and
\* the word texts of all returned lines, concatenated in order, are the
\* concatenation of the input 'word' texts.
C1_LineTextIsTrimmedWordText ==
    /\ \A m \in 1..Len(subtitle_lines) :
          IsTrimOf(subtitle_lines[m].line, WordText(subtitle_lines[m].words))
    /\ pc = "returned" => WordText(AllWords(subtitle_lines)) = InputText(data)

\* combine_words has returned two lines or more and strip() removed
\* whitespace from one of them
C1_Witness ==
    /\ pc = "returned"
    /\ Len(subtitle_lines) >= 2
    /\ \E m \in 1..Len(subtitle_lines) :
          subtitle_lines[m].line # WordText(subtitle_lines[m].words)

\* C2: the 'words' lists of the returned lines, concatenated in order, are
\* the input token sequence, no returned line has an empty 'words' list, and
\* the words left in the accumulator after the last token are the final line.
C2_NoWordDroppedOrDuplicated ==
    pc = "returned" =>
        /\ AllWords(subtitle_lines) = TokenWords(data)
        /\ \A m \in 1..Len(subtitle_lines) : subtitle_lines[m].words # <<>>
        /\ current_line.words # <<>> =>
              /\ subtitle_lines # <<>>
              /\ subtitle_lines[Len(subtitle_lines)].words = current_line.words

\* C4: every returned line of two or more words has an untrimmed text
\* shorter than max_chars.
C4_MultiWordLineShorterThanMaxChars ==
    pc = "returned" =>
        \A m \in 1..Len(subtitle_lines) :
            Len(subtitle_lines[m].words) >= 2 =>
                Len(WordText(subtitle_lines[m].words)) < max_chars

Oversized(word_data) ==
    \/ word_data.end - word_data.start > max_duration
    \/ Len(word_data.word) > max_chars

\* C5: a token whose own duration exceeds max_duration or whose own text is
\* longer than max_chars is the only word of a returned line, and an input
\* of one token gives exactly one line.
C5_OversizedTokenAlone ==
    pc = "returned" =>
        /\ Len(data) = 1 => Len(subtitle_lines) = 1
        /\ \A k \in 1..Len(data) :
              Oversized(data[k]) =>
                  \E m \in 1..Len(subtitle_lines) :
                      /\ WordsBefore(subtitle_lines, m) = k - 1
                      /\ subtitle_lines[m].words = << TokenWords(data)[k] >>

\* C6: a token that starts more than max_gap after the end of the token
\* before it is the first word of a returned line, and no returned line has
\* two adjacent words further apart than max_gap.
C6_GapSeparatesLines ==
    pc = "returned" =>
        /\ \A k \in 2..Len(data) :
              data[k].start - data[k - 1].end > max_gap =>
                  \E m \in 1..Len(subtitle_lines) :
                      /\ WordsBefore(subtitle_lines, m) = k - 1
                      /\ subtitle_lines[m].words # <<>>
                      /\ subtitle_lines[m].words[1] = TokenWords(data)[k]
        /\ \A m \in 1..Len(subtitle_lines) :
              \A k \in 2..Len(subtitle_lines[m].words) :
                  subtitle_lines[m].words[k].start
                      - subtitle_lines[m].words[k - 1].end <= max_gap

\* C8: every returned line of two or more words has a sum of word durations
\* of at most max_duration.
C8_MultiWordLineWithinMaxDuration ==
    pc = "returned" =>
        \A m \in 1..Len(subtitle_lines) :
            Len(subtitle_lines[m].words) >= 2 =>
                SumDurations(subtitle_lines[m].words) <= max_duration

\* word w, put after the complete line with the words prev, hits a limit
BreakCause(prev, w) ==
    \/ SumDurations(prev) + (w.end - w.start) > max_duration
    \/ Len(WordText(prev)) + Len(w.text) >= max_chars
    \/ w.start - prev[Len(prev)].end > max_gap

\* C9: no break without cause: the first word of every line after the first
\* (the line being accumulated included), put after the complete line
\* before it, exceeds the summed duration, reaches the character limit or
\* follows a gap above max_gap; the first token breaks nothing.
C9_NoBreakWithoutCause ==
    /\ (pc = "combine_words" /\ i <= 1) => subtitle_lines = <<>>
    /\ \A m \in 1..Len(subtitle_lines) : subtitle_lines[m].words # <<>>
    /\ \A m \in 2..Len(subtitle_lines) :
          BreakCause(subtitle_lines[m - 1].words, subtitle_lines[m].words[1])
    /\ (pc = "combine_words" /\ subtitle_lines # <<>>) =>
          /\ current_line.words # <<>>
          /\ BreakCause(subtitle_lines[Len(subtitle_lines)].words,
                        current_line.words[1])

\* combine_words has returned a line of two words or more followed by
\* another line
C9_Witness ==
    /\ pc = "returned"
    /\ \E m \in 1..(Len(subtitle_lines) - 1) : Len(subtitle_lines[m].words) >= 2

LayerKey(l) ==
    IF l.layer = "Video" THEN << "Video" >>
    ELSE << l.layer, l.text, l.start, l.duration >>
LayerKeys(layers) == [k \in 1..Len(layers) |-> LayerKey(layers[k])]
LayersOf(kind, lines) ==
    [k \in 1..Len(lines) |->
        << kind, lines[k].line, lines[k].start, lines[k].end - lines[k].start >>]

\* C3: when create_caption and the flattening are over, the list handed to
\* the compositor is the base video, then the shadow layers in line order
\* (none with shadows disabled), then the main layers in line order.
C3_ShadowsBeneathMains ==
    pc \in {"composited", "TypeError"} =>
        LayerKeys(composite) =
            << << "Video" >> >>
            \o (IF Shadow THEN LayersOf("Shadow", caption_data) ELSE <<>>)
            \o LayersOf("Main", caption_data)

\* C7: a call of create_caption_clip gives [Shadow, Main] with the shadow
\* option enabled and [Main] with it disabled.
C7_ShadowThenMain ==
    (pc = "TypeError" \/ n > 0) =>
        [k \in 1..Len(caption_clip) |-> caption_clip[k].layer] =
            IF Shadow THEN << "Shadow", "Main" >> ELSE << "Main" >>

\* C10: the shadow is placed at (x + dx, y + dy) for a main position (x, y)
\* and an offset (dx, dy), and at ('center', y + dy) for a centered one.
C10_ShadowAtPositionPlusOffset ==
    pc = "shadow_placed" =>
        shadow_pos =
            << IF position[1].center THEN Center
               ELSE Pixels(position[1].px + offset[1]),
               position[2] + offset[2] >>

====
